---- MODULE Spec2Model ----
(***************************************************************************)
(* A model of custom_components/mcp_client/transport.py: the               *)
(* StreamableHTTPTransport of the MCP client (connect / disconnect /       *)
(* list_tools / call_tool over one HTTP endpoint), as a state machine.     *)
(*                                                                         *)
(* The transport runs on one asyncio event loop: a coroutine runs          *)
(* atomically from one await that really suspends to the next.  The        *)
(* suspension points of the transport are the HTTP round trip of           *)
(* _raw_request (session.post ... response) and the close() of an owned    *)
(* ClientSession in disconnect().  Every action below is one such atomic   *)
(* stretch of one coroutine; Callers are the call sites of the host that   *)
(* may have an operation of the same Transport in flight at once.          *)
(*                                                                         *)
(* The Authorization header (transport.py 82-83) is a constant of the      *)
(* instance that no property below reads; it is left out of the request    *)
(* records.                                                                *)
(*                                                                         *)
(* The helpers around the transport that keep no state of their own        *)
(* (_parse_sse, MCPTool.async_call over the coordinator's async_call_tool, *)
(* the coordinator's _filter_tools, security.filter_tool_results) are each *)
(* examined alone further down, in a specification of one call: arg is the *)
(* argument of the call, ret what it returned or raised.                   *)
(***************************************************************************)
EXTENDS Integers, Sequences, FiniteSets, TLC

VARIABLES
    external_session,   \* self._external_session: None or the borrowed client
    timeout_connection, \* self._timeout_connection
    timeout_execution,  \* self._timeout_execution
    session,            \* self._session: None or a client (index into clients)
    session_id,         \* self._session_id: NoSid (None) or the header value
    id_counter,         \* self._id_counter: the value the next next() returns
    clients,            \* every aiohttp.ClientSession the run has seen
    tasks,              \* per caller: the operation in flight and where it waits
    wire,               \* history: the HTTP requests handed to session.post, in order
    drawn,              \* history: the values returned by next(self._id_counter), in order
    phase,              \* history: lifecycle as the callers have observed it
    server_sid,         \* history: the Mcp-Session-Id of the initialize answer that
                        \* connect() accepted last, NoSid since the last disconnect()
    last,               \* history: the operation that returned or raised last
    arg,                \* the argument of the call of a helper that is examined alone
    ret                 \* what that call returned or raised, NotCalled before it

vars == << external_session, timeout_connection, timeout_execution, session,
           session_id, id_counter, clients, tasks, wire, drawn, phase, server_sid,
           last, arg, ret >>

----------------------------------------------------------------------------
(* Bounds of the exploration *)

\* id draws explored (each connect / list_tools / call_tool draws one)
MaxId == 2

\* the host call sites that may run an operation of the Transport concurrently
Callers == {"a", "b"}

----------------------------------------------------------------------------
(* Values *)

\* Python None for self._session / self._external_session
None == 0

\* the client the host lends (async_get_clientsession): clients[1] when lent
ExternalClient == 1

\* Python None for self._session_id / an absent Mcp-Session-Id header
NoSid == "None"

\* a payload without an "id" key (the notification)
NoId == 0

\* timeout_override=None
NoOverride == -1

\* the dict {}
EmptyDict == [k \in {} |-> 0]

\* Python truthiness of a str | None
TruthyStr(s) == s # NoSid /\ s # ""

\* Python truthiness of an int | None
TruthyInt(n) == n # NoOverride /\ n # 0

\* values the server may put in the Mcp-Session-Id header of a response
Sids == {NoSid, "", "s1", "s2"}

----------------------------------------------------------------------------
(* JSON-RPC envelopes and HTTP responses: the inputs of the transport *)

\* A parsed JSON object is a function from its keys: "k in d" is k \in DOMAIN d.
EnvTools == [jsonrpc |-> "2.0",
             result |-> [tools |-> << [name |-> "t1"], [name |-> "t2"] >>]]
EnvNoTools == [jsonrpc |-> "2.0", result |-> EmptyDict]
EnvContent == [jsonrpc |-> "2.0",
               result |-> [content |-> << [type |-> "text", text |-> "A"] >>]]
EnvError == [jsonrpc |-> "2.0",
             error |-> [code |-> -32601, message |-> "not found"]]
EnvErrorNoCode == [jsonrpc |-> "2.0", error |-> [message |-> "boom"]]

\* A line of an HTTP body, without its line terminator: pre is what the line
\* starts with (a field prefix, " " for leading whitespace, "" for neither),
\* text the rest, which neither starts nor ends with whitespace.
Line(pre, text) == [pre |-> pre, text |-> text]
Data(text) == Line("data: ", text)
Blank == Line("", "")

\* JSON texts, as the lines they are written on
TxtTools == "{\"jsonrpc\":\"2.0\",\"result\":{\"tools\":[{\"name\":\"t1\"},{\"name\":\"t2\"}]}}"
TxtContent == "{\"jsonrpc\":\"2.0\",\"result\":{\"content\":[{\"type\":\"text\",\"text\":\"A\"}]}}"
TxtError == "{\"jsonrpc\":\"2.0\",\"error\":{\"code\":-32601,\"message\":\"not found\"}}"
TxtErrorNoCode == "{\"jsonrpc\":\"2.0\",\"error\":{\"message\":\"boom\"}}"
TxtNoToolsHead == "{\"jsonrpc\":\"2.0\","
TxtNoToolsTail == "\"result\":{}}"
TxtBad == "<html>Bad Gateway</html>"

\* str.strip() of a prefix that nothing follows
rstrip(pre) ==
    CASE pre = "data: " -> "data:"
      [] pre = "event: " -> "event:"
      [] pre = " " -> ""
      [] OTHER -> pre

\* line.decode("utf-8").strip(): leading whitespace goes, and so does the
\* whitespace that ends a prefix when no text follows it
strip(line) ==
    IF line.text = "" THEN Line(rstrip(line.pre), "")
    ELSE IF line.pre = " " THEN Line("", line.text)
    ELSE line

\* the JSON texts written on one line or on several
json_document(texts) ==
    CASE texts = << TxtTools >> -> [exc |-> "none", env |-> EnvTools]
      [] texts = << TxtContent >> -> [exc |-> "none", env |-> EnvContent]
      [] texts = << TxtError >> -> [exc |-> "none", env |-> EnvError]
      [] texts = << TxtErrorNoCode >> -> [exc |-> "none", env |-> EnvErrorNoCode]
      [] texts = << TxtNoToolsHead, TxtNoToolsTail >> ->
             [exc |-> "none", env |-> EnvNoTools]
      [] OTHER -> [exc |-> "JSONDecodeError", env |-> EmptyDict]

\* json.loads of the lines joined with "\n": the envelope, or the decoder's
\* failure.  A newline between two tokens of a JSON text is whitespace, and so
\* is the one an empty line adds.
json_loads(texts) == json_document(SelectSeq(texts, LAMBDA x : x # ""))

\* a parser that returns on the first data line
RECURSIVE first_data_line_from(_, _)
first_data_line_from(lines, i) ==
    IF i > Len(lines) THEN [exc |-> "MCPTransportError", env |-> EmptyDict]
    ELSE IF strip(lines[i]).pre = "data: "
         THEN json_loads(<< strip(lines[i]).text >>)
         ELSE first_data_line_from(lines, i + 1)

parse_sse_first_data_line(lines) == first_data_line_from(lines, 1)

\* a loop of _parse_sse that drops what it collected when the stream ends
RECURSIVE parse_sse_from_without_flush(_, _, _)
parse_sse_from_without_flush(lines, i, data_lines) ==
    IF i > Len(lines)
    THEN [exc |-> "MCPTransportError", env |-> EmptyDict]
    ELSE LET decoded == strip(lines[i])
         IN  IF decoded.pre = "data: "
             THEN parse_sse_from_without_flush(lines, i + 1,
                                               Append(data_lines, decoded.text))
             ELSE IF decoded = Blank /\ data_lines # << >>
                  THEN json_loads(data_lines)
                  ELSE parse_sse_from_without_flush(lines, i + 1, data_lines)

\* the loop of _parse_sse from line i on, data_lines collected so far
RECURSIVE parse_sse_from(_, _, _)
parse_sse_from(lines, i, data_lines) ==
    IF i > Len(lines)
    THEN IF data_lines # << >>
         THEN json_loads(data_lines)
         ELSE [exc |-> "MCPTransportError", env |-> EmptyDict]
    ELSE LET decoded == strip(lines[i])
         IN  IF decoded.pre = "data: "
             THEN parse_sse_from(lines, i + 1, Append(data_lines, decoded.text))
             ELSE IF decoded = Blank /\ data_lines # << >>
                  THEN json_loads(data_lines)
                  ELSE parse_sse_from(lines, i + 1, data_lines)

_parse_sse(lines) == parse_sse_from(lines, 1, << >>)

\* response.json(): the whole body is one JSON text
response_json(lines) == json_loads([i \in 1..Len(lines) |-> lines[i].text])

JsonBody(texts) == [i \in 1..Len(texts) |-> Line("", texts[i])]
SseEvent(texts) == [i \in 1..Len(texts) |-> Data(texts[i])] \o << Blank >>

\* What the server, or the network, answers to one POST.
Http(status, ctype, body, sid) ==
    [kind |-> "http", status |-> status, ctype |-> ctype, body |-> body, sid |-> sid]
Unreachable ==
    [kind |-> "unreachable", status |-> 0, ctype |-> "", body |-> << >>, sid |-> NoSid]
TimedOut ==
    [kind |-> "timeout", status |-> 0, ctype |-> "", body |-> << >>, sid |-> NoSid]

CtJson == "application/json"
CtSse == "text/event-stream"

\* "text/event-stream" in content_type
IsEventStream(ctype) == ctype \in {CtSse, "text/event-stream; charset=utf-8"}

\* the bodies of the answers explored, with their content type
Bodies ==
    { << CtJson, JsonBody(<< TxtTools >>) >>,
      << CtJson, JsonBody(<< TxtContent >>) >>,
      << CtJson, JsonBody(<< TxtError >>) >>,
      << CtJson, JsonBody(<< TxtNoToolsHead, TxtNoToolsTail >>) >>,
      << CtJson, JsonBody(<< TxtBad >>) >>,
      << CtSse, SseEvent(<< TxtTools >>) >>,
      << CtSse, SseEvent(<< TxtNoToolsHead, TxtNoToolsTail >>) >>,
      << CtSse, SseEvent(<< TxtErrorNoCode >>) >>,
      << CtSse, << Line("event: ", "ping"), Blank >> >> }

\* HTTP statuses explored: success, a 3xx that is not followed, 401, another 4xx/5xx
Statuses == {200, 304, 401, 500}

\* Answers to initialize: the only response whose headers the transport reads.
InitializeResponses ==
    { Http(st, b[1], b[2], sid) :
        st \in {200}, sid \in Sids,
        b \in { << CtJson, JsonBody(<< TxtNoToolsHead, TxtNoToolsTail >>) >>,
                << CtJson, JsonBody(<< TxtError >>) >>,
                << CtSse, << Line("event: ", "ping"), Blank >> >> } }
    \cup { Http(st, CtJson, << >>, NoSid) : st \in Statuses \ {200} }
    \cup { Unreachable, TimedOut }

\* Answers to the notification: neither body nor headers are read.
NotificationResponses ==
    { Http(st, CtJson, << >>, NoSid) : st \in Statuses } \cup { Unreachable, TimedOut }

\* Answers to tools/list and tools/call: the headers are dropped (result, _ = ...).
RequestResponses ==
    { Http(200, b[1], b[2], NoSid) : b \in Bodies }
    \cup { Http(304, CtJson, JsonBody(<< TxtTools >>), NoSid) }
    \cup { Http(st, CtJson, << >>, NoSid) : st \in {401, 500} }
    \cup { Unreachable, TimedOut }

----------------------------------------------------------------------------
(* The pure parts of the transport *)

\* d.get(k, default)
dict_get(d, k, default) == IF k \in DOMAIN d THEN d[k] ELSE default

\* a _build_headers that forgets the session header
build_headers_without_session(sid) == NoSid

\* _build_headers: the value of the Mcp-Session-Id header of a request
\* (NoSid: the header is not set), given self._session_id
_build_headers(sid) == IF TruthyStr(sid) THEN sid ELSE NoSid

\* a request timeout that is the connection timeout whatever the override
request_timeout_connection_only(timeout_override, connection) == connection

\* total = timeout_override or self._timeout_connection
request_timeout(timeout_override, connection) ==
    IF TruthyInt(timeout_override) THEN timeout_override ELSE connection

\* response.raise_for_status(): aiohttp raises ClientResponseError when the
\* status is 400 or more (ClientResponse.ok is status < 400)
raise_for_status(status) == status >= 400

\* Why _raw_request cannot hand the request to the HTTP client: "none" when it
\* can.  "if not self._session" raises RuntimeError("Not connected"); post() of
\* a closed ClientSession raises RuntimeError("Session is closed").
post_error(s, cl) ==
    IF s = None THEN "Not connected"
    ELSE IF cl[s].closed THEN "Session is closed"
    ELSE "none"

\* a _raw_request that swallows whatever went wrong with the POST
raw_response_failure_swallowed(resp, expect_response) ==
    [exc |-> "none", status |-> resp.status, msg |-> << >>,
     env |-> EmptyDict, sid |-> resp.sid]

\* _raw_request from the answer on: what it raises, or (result, headers)
raw_response(resp, expect_response) ==
    IF resp.kind = "unreachable"
    THEN [exc |-> "ClientConnectionError", status |-> 0, msg |-> << >>,
          env |-> EmptyDict, sid |-> NoSid]
    ELSE IF resp.kind = "timeout"
    THEN [exc |-> "TimeoutError", status |-> 0, msg |-> << >>,
          env |-> EmptyDict, sid |-> NoSid]
    ELSE IF raise_for_status(resp.status)
    THEN [exc |-> "ClientResponseError", status |-> resp.status, msg |-> << >>,
          env |-> EmptyDict, sid |-> NoSid]
    ELSE IF ~expect_response
    THEN [exc |-> "none", status |-> resp.status, msg |-> << >>,
          env |-> EmptyDict, sid |-> resp.sid]
    ELSE LET parsed == IF IsEventStream(resp.ctype)
                       THEN _parse_sse(resp.body)
                       ELSE response_json(resp.body)
         IN [exc |-> parsed.exc, status |-> resp.status,
             msg |-> IF parsed.exc = "MCPTransportError"
                     THEN << "SSE stream ended without any data" >>
                     ELSE << >>,
             env |-> parsed.env, sid |-> resp.sid]

\* f"JSON-RPC error {err.get('code')}: {err.get('message')}", as its pieces
error_message(err) ==
    << "JSON-RPC error ",
       IF "code" \in DOMAIN err THEN ToString(err.code) ELSE "None",
       ": ",
       IF "message" \in DOMAIN err THEN err.message ELSE "None" >>

\* a _request that hands the envelope back unchecked
request_unchecked(raw) == raw

\* _request after _raw_request: raises on an envelope with an "error" key
_request(raw) ==
    IF raw.exc = "none" /\ "error" \in DOMAIN raw.env
    THEN [raw EXCEPT !.exc = "MCPTransportError",
                     !.msg = error_message(raw.env.error)]
    ELSE raw

\* a list_tools that looks for the tools beside the result, not in it
list_tools_of_envelope(env) == dict_get(env, "tools", << >>)

\* what list_tools and call_tool return from the envelope
list_tools_value(env) == dict_get(dict_get(env, "result", EmptyDict), "tools", << >>)
call_tool_value(env) == dict_get(env, "result", EmptyDict)

\* a counter that does not advance
count_stuck(c) == c

\* a counter that every connect() starts over
count_restart(c) == 1

\* next(self._id_counter) of itertools.count(1): the counter after a draw
count_next(c) == c + 1

\* a disconnect that does not ask whose client it holds
should_close_any_owner(s, cl, ext) == s # None /\ ~cl[s].closed

\* a disconnect that does not ask whether the client is closed already
should_close_again(s, cl, ext) == s # None /\ ext = None

\* disconnect's test before self._session.close()
should_close(s, cl, ext) == s # None /\ ~cl[s].closed /\ ext = None

\* session.close() of client s
close_client(cl, s) ==
    [cl EXCEPT ![s] = [closed |-> TRUE, closeCalls |-> @.closeCalls + 1]]

----------------------------------------------------------------------------
(* The operations *)

NewClient == [closed |-> FALSE, closeCalls |-> 0]

Idle == [pc |-> "idle", op |-> "none", opened |-> None]

Returned(op, value) ==
    [op |-> op, exc |-> "none", status |-> 0, msg |-> << >>, value |-> value]

Raised(op, exc, status, msg) ==
    [op |-> op, exc |-> exc, status |-> status, msg |-> msg, value |-> << >>]

\* the lifecycle after a connect() that raised / returned
AfterConnect(ok) ==
    IF phase = "Disconnected" THEN phase ELSE IF ok THEN "Ready" ELSE "Failed"

\* The head of _raw_request, run by caller t for operation op: raise when there
\* is no usable client, else hand the request to session.post and wait.
Issue(t, op, waitpc, opened, method, id, timeout_override, s, cl, sid) ==
    IF post_error(s, cl) = "none"
    THEN /\ wire' = Append(wire, [method |-> method, id |-> id,
                                  sid |-> _build_headers(sid),
                                  timeout |-> request_timeout(timeout_override,
                                                              timeout_connection)])
         /\ tasks' = [tasks EXCEPT ![t] = [pc |-> waitpc, op |-> op, opened |-> opened]]
         /\ last' = last
    ELSE /\ wire' = wire
         /\ tasks' = [tasks EXCEPT ![t] = Idle]
         /\ last' = Raised(op, "RuntimeError", 0, << post_error(s, cl) >>)

\* the state __init__ leaves, given its session, timeout_connection and
\* timeout_execution arguments
Constructed(ext, connection, execution) ==
    /\ external_session = ext
    /\ timeout_connection = connection
    /\ timeout_execution = execution
    /\ session = None
    /\ session_id = NoSid
    /\ id_counter = 1
    /\ clients = IF ext = None THEN << >> ELSE << NewClient >>
    /\ tasks = [t \in Callers |-> Idle]
    /\ wire = << >>
    /\ drawn = << >>
    /\ phase = "Disconnected"
    /\ server_sid = NoSid
    /\ last = Returned("none", << >>)

\* no helper is examined alone in the runs of the transport
NotCalled == [done |-> FALSE]

\* a Transport built with the defaults of the constructor
Init ==
    /\ \E ext \in {None, ExternalClient} : Constructed(ext, 30, 60)
    /\ arg = << >>
    /\ ret = NotCalled

\* connect() up to the await of the initialize round trip
connect(t) ==
    /\ tasks[t].pc = "idle"
    /\ id_counter <= MaxId
    /\ LET owned == external_session = None
           s == IF owned THEN Len(clients) + 1 ELSE external_session
           cl == IF owned THEN Append(clients, NewClient) ELSE clients
       IN /\ session' = s
          /\ clients' = cl
          /\ drawn' = Append(drawn, id_counter)
          /\ id_counter' = count_next(id_counter)
          /\ Issue(t, "connect", "await_initialize", IF owned THEN s ELSE None,
                   "initialize", id_counter, NoOverride, s, cl, session_id)
          /\ phase' = IF post_error(s, cl) = "none" THEN "Connecting"
                      ELSE AfterConnect(FALSE)
    /\ UNCHANGED << arg, ret, external_session, timeout_connection, timeout_execution, session_id,
                    server_sid >>

\* connect() from the answer to initialize to the await of the notification
on_initialize_response(t, resp) ==
    /\ tasks[t].pc = "await_initialize"
    /\ LET raw == raw_response(resp, TRUE) IN
        IF raw.exc # "none"
        THEN /\ last' = Raised("connect", raw.exc, raw.status, raw.msg)
             /\ tasks' = [tasks EXCEPT ![t] = Idle]
             /\ phase' = AfterConnect(FALSE)
             /\ UNCHANGED << session_id, server_sid, wire >>
        ELSE /\ session_id' = raw.sid
             /\ server_sid' = resp.sid
             /\ Issue(t, "connect", "await_initialized", tasks[t].opened,
                      "notifications/initialized", NoId, NoOverride,
                      session, clients, raw.sid)
             /\ phase' = IF post_error(session, clients) = "none" THEN phase
                         ELSE AfterConnect(FALSE)
    /\ UNCHANGED << arg, ret, external_session, timeout_connection, timeout_execution, session,
                    id_counter, clients, drawn >>

connect_initialize_response(t) ==
    \E resp \in InitializeResponses : on_initialize_response(t, resp)

\* connect() from the answer to the notification to its return
on_initialized_response(t, resp) ==
    /\ tasks[t].pc = "await_initialized"
    /\ LET raw == raw_response(resp, FALSE) IN
        /\ last' = IF raw.exc # "none"
                   THEN Raised("connect", raw.exc, raw.status, raw.msg)
                   ELSE Returned("connect", << >>)
        /\ phase' = AfterConnect(raw.exc = "none")
    /\ tasks' = [tasks EXCEPT ![t] = Idle]
    /\ UNCHANGED << arg, ret, external_session, timeout_connection, timeout_execution, session,
                    session_id, id_counter, clients, wire, drawn, server_sid >>

connect_initialized_response(t) ==
    \E resp \in NotificationResponses : on_initialized_response(t, resp)

\* list_tools() up to the await of its round trip
list_tools(t) ==
    /\ tasks[t].pc = "idle"
    /\ id_counter <= MaxId
    /\ drawn' = Append(drawn, id_counter)
    /\ id_counter' = count_next(id_counter)
    /\ Issue(t, "list_tools", "await_response", None, "tools/list", id_counter,
             NoOverride, session, clients, session_id)
    /\ UNCHANGED << arg, ret, external_session, timeout_connection, timeout_execution, session,
                    session_id, clients, phase, server_sid >>

\* call_tool() up to the await of its round trip
call_tool(t) ==
    /\ tasks[t].pc = "idle"
    /\ id_counter <= MaxId
    /\ drawn' = Append(drawn, id_counter)
    /\ id_counter' = count_next(id_counter)
    /\ Issue(t, "call_tool", "await_response", None, "tools/call", id_counter,
             timeout_execution, session, clients, session_id)
    /\ UNCHANGED << arg, ret, external_session, timeout_connection, timeout_execution, session,
                    session_id, clients, phase, server_sid >>

\* list_tools() / call_tool() from the answer to the return
on_request_response(t, resp) ==
    /\ tasks[t].pc = "await_response"
    /\ LET out == _request(raw_response(resp, TRUE))
            op == tasks[t].op
        IN last' = IF out.exc # "none"
                   THEN Raised(op, out.exc, out.status, out.msg)
                   ELSE Returned(op, IF op = "list_tools"
                                     THEN list_tools_value(out.env)
                                     ELSE call_tool_value(out.env))
    /\ tasks' = [tasks EXCEPT ![t] = Idle]
    /\ UNCHANGED << arg, ret, external_session, timeout_connection, timeout_execution, session,
                    session_id, id_counter, clients, wire, drawn, phase, server_sid >>

request_response(t) ==
    \E resp \in RequestResponses : on_request_response(t, resp)

\* disconnect() up to the await of session.close(), or to its return when
\* there is nothing to close
disconnect(t) ==
    /\ tasks[t].pc = "idle"
    /\ IF should_close(session, clients, external_session)
       THEN /\ clients' = close_client(clients, session)
            /\ tasks' = [tasks EXCEPT ![t] = [pc |-> "await_close", op |-> "disconnect",
                                              opened |-> None]]
            /\ UNCHANGED << session, session_id, phase, server_sid, last >>
       ELSE /\ session' = None
            /\ session_id' = NoSid
            /\ phase' = "Disconnected"
            /\ server_sid' = NoSid
            /\ last' = Returned("disconnect", << >>)
            /\ UNCHANGED << clients, tasks >>
    /\ UNCHANGED << arg, ret, external_session, timeout_connection, timeout_execution,
                    id_counter, wire, drawn >>

\* disconnect() from the return of session.close() to its own return
disconnect_closed(t) ==
    /\ tasks[t].pc = "await_close"
    /\ session' = None
    /\ session_id' = NoSid
    /\ phase' = "Disconnected"
    /\ server_sid' = NoSid
    /\ last' = Returned("disconnect", << >>)
    /\ tasks' = [tasks EXCEPT ![t] = Idle]
    /\ UNCHANGED << arg, ret, external_session, timeout_connection, timeout_execution,
                    id_counter, clients, wire, drawn >>

Next ==
    \E t \in Callers :
        \/ connect(t)
        \/ connect_initialize_response(t)
        \/ connect_initialized_response(t)
        \/ list_tools(t)
        \/ call_tool(t)
        \/ request_response(t)
        \/ disconnect(t)
        \/ disconnect_closed(t)

Spec == Init /\ [][Next]_vars

----------------------------------------------------------------------------
(* Vocabulary of the properties *)

Range(f) == { f[i] : i \in DOMAIN f }

Last(q) == q[Len(q)]

\* the ids of the outbound requests that carry one, in the order sent
WireIds ==
    LET HasId(r) == r.id # NoId
        withId == SelectSeq(wire, HasId)
    IN [i \in 1..Len(withId) |-> withId[i].id]

\* caller t's operation returns or raises in this step
Completes(t) == tasks[t].pc # "idle" /\ tasks'[t].pc = "idle"

\* The error kinds of the specification (section 7), read off what the code
\* raises the way the configuration step tells them apart (config_flow.py
\* 90-99): a ClientResponseError with status 401 is the AuthError, any other
\* one and a ClientConnectionError are the ConnectionError.
ErrorKind(ev) ==
    CASE ev.exc = "none" -> "none"
      [] ev.exc = "RuntimeError" /\ ev.msg = << "Not connected" >> -> "NotConnectedError"
      [] ev.exc = "RuntimeError" -> "RuntimeError"
      [] ev.exc = "ClientResponseError" /\ ev.status = 401 -> "AuthError"
      [] ev.exc = "ClientResponseError" -> "ConnectionError"
      [] ev.exc = "ClientConnectionError" -> "ConnectionError"
      [] ev.exc = "TimeoutError" -> "TimeoutError"
      [] OTHER -> "ProtocolError"

\* the answer is a success whose JSON-RPC envelope has an "error" member
ErrorEnvelope(resp) ==
    /\ resp.kind = "http"
    /\ resp.status \in 200..299
    /\ raw_response(resp, TRUE).exc = "none"
    /\ "error" \in DOMAIN raw_response(resp, TRUE).env

----------------------------------------------------------------------------
(* C1 *)

\* C1, as stated: after any N id draws the ids carried by the outbound
\* requests are exactly 1, 2, 3, ... in order, none skipped.
C1_OutboundIdsContiguous ==
    \A i \in 1..Len(WireIds) : WireIds[i] = i

\* C1, amended: the ids drawn are exactly 1..N in draw order (never 0 or
\* negative, never repeated, never skipped), also when the draws of two callers
\* interleave; every id on the wire is a drawn one, and the ids on the wire are
\* positive and strictly increasing in the order sent.  (An id drawn by a
\* list_tools / call_tool that raises before sending is not on the wire.)
C1_DrawnIdsExact ==
    /\ \A i \in 1..Len(drawn) : drawn[i] = i
    /\ \A i \in 1..Len(WireIds) : WireIds[i] >= 1 /\ WireIds[i] \in Range(drawn)
    /\ \A i, j \in 1..Len(WireIds) : i < j => WireIds[i] < WireIds[j]

\* two callers have a request in flight at once, with the ids 1 and 2
C1_Witness ==
    /\ \A t \in Callers : tasks[t].pc \in {"await_initialize", "await_response"}
    /\ WireIds = << 1, 2 >>

----------------------------------------------------------------------------
(* C2 *)

\* C2: list_tools() and call_tool() invoked in a state other than Ready raise
\* the not-connected error and send no HTTP request.
C2_NotReadyRaisesNotConnected ==
    [][ \A t \in Callers :
          ((list_tools(t) \/ call_tool(t)) /\ phase # "Ready")
          => (wire' = wire /\ ErrorKind(last') = "NotConnectedError") ]_vars

----------------------------------------------------------------------------
(* C3 *)

\* the failures of the transport level: unreachable host, error status,
\* timeout, a body that does not parse
TransportFailure(ev) ==
    \/ ev.exc \in {"ClientConnectionError", "ClientResponseError", "TimeoutError",
                   "JSONDecodeError"}
    \/ ev.exc = "MCPTransportError" /\ ev.msg = << "SSE stream ended without any data" >>

\* C3: an operation that fails at the transport level leaves the Transport
\* Disconnected: no HTTP client held, no session identifier retained.
C3_FailureLeavesDisconnected ==
    [][ \A t \in Callers :
          (Completes(t) /\ tasks[t].op \in {"connect", "list_tools", "call_tool"}
             /\ TransportFailure(last'))
          => (session' = None /\ session_id' = NoSid) ]_vars

----------------------------------------------------------------------------
(* C4 *)

\* C4: a client lent to the Transport is never closed by it, whatever the
\* callers do; on a Transport that owns its client, disconnect() closes the
\* client it holds.
C4_BorrowedNeverClosedOwnedClosed ==
    [][ /\ external_session # None
           => \A c \in DOMAIN clients' :
                ~clients'[c].closed /\ clients'[c].closeCalls = 0
        /\ \A t \in Callers :
             (disconnect(t) /\ external_session = None /\ session # None)
             => clients'[session].closed ]_vars

\* a Transport on a lent client has connected, sent requests and disconnected,
\* and the lent client is still open
C4_Witness ==
    /\ external_session # None
    /\ last.op = "disconnect"
    /\ Len(wire) >= 2
    /\ session = None
    /\ ~clients[ExternalClient].closed

----------------------------------------------------------------------------
(* C5 *)

\* C5: when connect() on a Transport that owns its client raises, the client
\* it opened is closed by then.
C5_FailedConnectClosesClient ==
    [][ \A t \in Callers :
          (Completes(t) /\ tasks[t].op = "connect" /\ last'.exc # "none"
             /\ tasks[t].opened # None)
          => clients'[tasks[t].opened].closed ]_vars

----------------------------------------------------------------------------
(* C6 *)

\* caller t's disconnect() returns in this step
DisconnectReturns(t) ==
    \/ disconnect(t) /\ tasks'[t].pc = "idle"
    \/ disconnect_closed(t)

\* C6: disconnect() returns without error from any state, with no client held
\* and no session identifier; called on a Transport that is already
\* Disconnected it changes nothing and closes nothing; no client is closed a
\* second time.
C6_DisconnectIdempotent ==
    [][ /\ \A t \in Callers :
             DisconnectReturns(t)
             => /\ session' = None
                /\ session_id' = NoSid
                /\ last' = Returned("disconnect", << >>)
                /\ (session = None /\ session_id = NoSid)
                   => UNCHANGED << session, session_id, clients >>
        /\ \A c \in DOMAIN clients' : clients'[c].closeCalls <= 1 ]_vars

\* disconnect() has returned on a Transport that was never connected
C6_Witness ==
    /\ last.op = "disconnect"
    /\ drawn = << >>
    /\ session = None

----------------------------------------------------------------------------
(* C7 *)

----------------------------------------------------------------------------
(* C8 *)

----------------------------------------------------------------------------
(* C9 *)

\* the answer resp makes the operation of caller t resume in this step
Answered(t, resp) ==
    \/ resp \in InitializeResponses /\ on_initialize_response(t, resp)
    \/ resp \in NotificationResponses /\ on_initialized_response(t, resp)
    \/ resp \in RequestResponses /\ on_request_response(t, resp)

AllResponses == InitializeResponses \cup NotificationResponses \cup RequestResponses

----------------------------------------------------------------------------
(* C10 *)

----------------------------------------------------------------------------
(* _parse_sse examined alone: one call on one streamed body *)

\* lines of a streamed body explored
MaxLines == 3

\* the variables of the Transport, which a helper examined alone leaves as built
transport_vars == << external_session, timeout_connection, timeout_execution,
                     session, session_id, id_counter, clients, tasks, wire,
                     drawn, phase, server_sid, last >>

\* the lines a server may stream: data lines of a one-line and of a two-line
\* JSON text, a data line with an empty payload, a data field written without
\* the space, an empty line, a line of whitespace, another field
SseLines ==
    { Data(TxtTools), Data(TxtNoToolsHead), Data(TxtNoToolsTail), Data(""),
      Line("data:", TxtTools), Blank, Line(" ", ""), Line("event: ", "message") }

Streams == UNION { [1..n -> SseLines] : n \in 0..MaxLines }

\* the outcome of a call examined alone
Outcome(r) == [done |-> TRUE, exc |-> r.exc, env |-> r.env]

InitSSE ==
    /\ Constructed(None, 30, 60)
    /\ arg \in Streams
    /\ ret = NotCalled

\* await self._parse_sse(response) on the body arg
parse_sse ==
    /\ ret = NotCalled
    /\ ret' = Outcome(_parse_sse(arg))
    /\ UNCHANGED << arg, transport_vars >>

NextSSE == parse_sse

SpecSSE == InitSSE /\ [][NextSSE]_vars

----------------------------------------------------------------------------
(* C11, C12: the first event of a streamed body *)

\* the indices of lines, in order, that are in the set idx
Ascending(lines, idx) ==
    SelectSeq([i \in 1..Len(lines) |-> i], LAMBDA i : i \in idx)

Min(S) == CHOOSE x \in S : \A y \in S : x <= y

\* a "data: <payload>" line, whatever the payload
IsDataLine(line) == line.pre = "data: "

\* a "data: <payload>" line whose payload is not empty
IsDataLineWithPayload(line) == line.pre = "data: " /\ line.text # ""

\* a blank line: nothing, or nothing but whitespace
IsBlankLine(line) == line.text = "" /\ line.pre \in {"", " "}

\* the data lines of a body, by index, for a notion D of data line
DataLines(lines, D(_)) == { i \in 1..Len(lines) : D(lines[i]) }

\* the blank lines that follow a data line
Terminators(lines, D(_)) ==
    { i \in 1..Len(lines) :
        IsBlankLine(lines[i]) /\ \E j \in DataLines(lines, D) : j < i }

\* where the first event ends: at its terminator, or after the last line
EventEnd(lines, D(_)) ==
    IF Terminators(lines, D) = {} THEN Len(lines) + 1
    ELSE Min(Terminators(lines, D))

\* the payloads of the data lines of the first event, in order
EventPayloads(lines, D(_)) ==
    LET ix == Ascending(lines, { i \in DataLines(lines, D) : i < EventEnd(lines, D) })
    IN  [k \in 1..Len(ix) |-> lines[ix[k]].text]

\* the envelope that a JSON text denotes, or that it denotes none
Denotes(texts) == json_loads(texts)

\* two outcomes that a caller cannot tell apart by success, envelope or, for
\* a failure, by its being one
SameResult(a, b) ==
    /\ (a.exc = "none") = (b.exc = "none")
    /\ a.exc = "none" => a.env = b.env

----------------------------------------------------------------------------
(* C13 *)

\* the JSON texts of the answers to tools/list that carry a result
ResultDocuments == { << TxtTools >>, << TxtNoToolsHead, TxtNoToolsTail >> }

\* the tools member of the result of an envelope, the empty list without one
ToolsOf(env) == IF "tools" \in DOMAIN env.result THEN env.result.tools ELSE << >>

\* C13: list_tools() answered 200 with a result envelope returns the tools of
\* its result, the empty sequence when the result has none, and the same
\* whether the envelope is the application/json body or the first event of a
\* text/event-stream body.
C13_ListToolsFromJsonOrSse ==
    [][ \A t \in Callers : \A texts \in ResultDocuments :
          \A resp \in { Http(200, CtJson, JsonBody(texts), NoSid),
                        Http(200, CtSse, SseEvent(texts), NoSid) } :
            (tasks[t].op = "list_tools" /\ on_request_response(t, resp))
            => last' = Returned("list_tools", ToolsOf(Denotes(texts).env)) ]_vars

\* list_tools() has returned the empty sequence for a result without tools
C13_Witness ==
    /\ last = Returned("list_tools", << >>)
    /\ \E i \in 1..Len(wire) : wire[i].method = "tools/list"

----------------------------------------------------------------------------
(* The Transport built with configured timeouts *)

\* (session, connection timeout, execution timeout) explored: the client of
\* the host with the ends of the ranges the options form accepts (5..60 and
\* 10..120), as the coordinator builds it, and a Transport that owns its
\* client with the defaults of const.py
Configurations ==
    { << ExternalClient, 5, 120 >>, << ExternalClient, 60, 10 >>, << None, 10, 60 >> }

InitTimeouts ==
    /\ \E c \in Configurations : Constructed(c[1], c[2], c[3])
    /\ arg = << >>
    /\ ret = NotCalled

SpecTimeouts == InitTimeouts /\ [][Next]_vars

\* C14: every request of connect() (initialize, the notification) and of
\* list_tools() is sent with the connection timeout as its total, every request
\* of call_tool() with the execution timeout, whatever the two configured
\* values are.
C14_TimeoutPerOperation ==
    \A i \in 1..Len(wire) :
        wire[i].timeout = IF wire[i].method = "tools/call"
                          THEN timeout_execution
                          ELSE timeout_connection

\* a call_tool() and a list_tools() were sent, the execution timeout being the
\* shorter of the two
C14_Witness ==
    /\ timeout_execution < timeout_connection
    /\ \E i, j \in 1..Len(wire) :
         /\ wire[i].method = "tools/call" /\ wire[i].timeout = timeout_execution
         /\ wire[j].method # "tools/call" /\ wire[j].timeout = timeout_connection

----------------------------------------------------------------------------
(* C15 *)

\* the POST failed: no answer in time, no answer at all, or an error status
PostFailed(resp) ==
    resp.kind \in {"timeout", "unreachable"} \/ (resp.kind = "http" /\ resp.status >= 400)

\* the exception of aiohttp / asyncio for a failed POST
PostFailure(resp) ==
    CASE resp.kind = "timeout" -> "TimeoutError"
      [] resp.kind = "unreachable" -> "ClientConnectionError"
      [] OTHER -> "ClientResponseError"

\* the requests on the wire with the given method
Sent(w, method) == { i \in 1..Len(w) : w[i].method = method }

\* C15: no message is posted twice (no id twice, no more notifications than
\* initialize requests), and a POST that fails (a timeout, an unreachable host,
\* a status of 400 or more) ends the operation with that very error,
\* TimeoutError for the timeout, and posts nothing.
C15_NeverRetries ==
    [][ /\ \A t \in Callers : \A resp \in AllResponses :
             (Answered(t, resp) /\ PostFailed(resp))
             => /\ wire' = wire
                /\ tasks'[t].pc = "idle"
                /\ last'.exc = PostFailure(resp)
        /\ \A i, j \in 1..Len(wire') :
             (i # j /\ wire'[i].id # NoId) => wire'[i].id # wire'[j].id
        /\ Cardinality(Sent(wire', "notifications/initialized"))
             <= Cardinality(Sent(wire', "initialize")) ]_vars

\* connect() timed out on initialize: it raised TimeoutError having posted
\* that one request only
C15_Witness ==
    /\ last.op = "connect"
    /\ last.exc = "TimeoutError"
    /\ Len(wire) = 1
    /\ wire[1].method = "initialize"
    /\ \A t \in Callers : tasks[t].pc = "idle"

----------------------------------------------------------------------------
(* The tool gateway examined alone: one MCPTool.async_call, over            *)
(* MCPGatewayCoordinator.async_call_tool, on one outcome of the Transport's *)
(* call_tool                                                                *)

\* elements of a tool result's content explored
MaxParts == 3

ToolNames == {"t1", "t2"}

\* content elements: texts, an empty text, an image, an element without a
\* type, and a text element that lacks its text
Parts ==
    { [type |-> "text", text |-> "A"], [type |-> "text", text |-> "B"],
      [type |-> "text", text |-> ""], [type |-> "image", data |-> "AAAA"],
      EmptyDict, [type |-> "text"] }

Contents == UNION { [1..n -> Parts] : n \in 0..MaxParts }

\* what call_tool returns: the result member of the envelope
ToolResults ==
    { [content |-> c] : c \in Contents }
    \cup { EmptyDict, [isError |-> TRUE, content |-> << [type |-> "text", text |-> "A"] >>] }

\* an exception: its class, the status of a ClientResponseError, the pieces
\* of its message, and its __cause__
NoCause == [type |-> "none"]
Exception(type, status, msg, cause) ==
    [type |-> type, status |-> status, msg |-> msg, cause |-> cause]

\* what call_tool raises: what _request raises on an answer, and the
\* RuntimeError of _raw_request without a usable client
ToolFailures ==
    { Exception(r.exc, r.status, r.msg, NoCause) :
        r \in { x \in { _request(raw_response(resp, TRUE)) : resp \in RequestResponses } :
                  x.exc # "none" } }
    \cup { Exception("RuntimeError", 0, << m >>, NoCause) :
             m \in {"Not connected", "Session is closed"} }

\* the outcome of an awaited call: a value returned or an exception raised
Return(value) == [exc |-> "none", value |-> value, error |-> NoCause]
Raise(error) == [exc |-> error.type, value |-> EmptyDict, error |-> error]

\* str(err)
py_str(err) ==
    IF err.type = "ClientResponseError" THEN << ToString(err.status) >> ELSE err.msg

\* sep.join(parts), as its pieces
RECURSIVE join(_, _)
join(sep, parts) ==
    IF parts = << >> THEN << >>
    ELSE IF Len(parts) = 1 THEN << parts[1] >>
    ELSE << parts[1], sep >> \o join(sep, Tail(parts))

\* a Python str: the pieces joined, or the rendering str(of) of a dict
Joined(pieces) == [pieces |-> pieces, str_of |-> EmptyDict]
Rendered(d) == [pieces |-> << >>, str_of |-> d]

\* an extraction that keeps the first text only
extract_first_text(result) ==
    LET content_parts == dict_get(result, "content", << >>)
        selected == SelectSeq(content_parts,
                              LAMBDA part : dict_get(part, "type", "None") = "text")
    IN  IF \E i \in 1..Len(selected) : "text" \notin DOMAIN selected[i]
        THEN Raise(Exception("KeyError", 0, << "text" >>, NoCause))
        ELSE Return([result |-> IF selected # << >>
                                THEN Joined(<< selected[1].text >>)
                                ELSE Rendered(result)])

\* MCPTool._extract_result: part["text"] raises KeyError on a text element
\* without a text
_extract_result(result) ==
    LET content_parts == dict_get(result, "content", << >>)
        selected == SelectSeq(content_parts,
                              LAMBDA part : dict_get(part, "type", "None") = "text")
    IN  IF \E i \in 1..Len(selected) : "text" \notin DOMAIN selected[i]
        THEN Raise(Exception("KeyError", 0, << "text" >>, NoCause))
        ELSE LET text_parts == [i \in 1..Len(selected) |-> selected[i].text]
             IN  Return([result |-> IF text_parts # << >>
                                    THEN Joined(join("\n", text_parts))
                                    ELSE Rendered(result)])

\* a coordinator that answers a failed call with an empty result
async_call_tool_swallowing(tool_name, transport, outcome) ==
    IF transport /\ outcome.exc = "none" THEN outcome ELSE Return(EmptyDict)

\* MCPGatewayCoordinator.async_call_tool, given whether self._transport is
\* set and what its call_tool does
async_call_tool(tool_name, transport, outcome) ==
    IF ~transport
    THEN Raise(Exception("HomeAssistantError", 0, << "Transport not initialized" >>, NoCause))
    ELSE IF outcome.exc = "none" THEN outcome
    ELSE IF outcome.exc = "HomeAssistantError" THEN outcome
    ELSE Raise(Exception("HomeAssistantError", 0,
                         << "Error calling tool ", tool_name, ": " >> \o py_str(outcome.error),
                         outcome.error))

\* MCPTool.async_call
async_call(tool_name, transport, outcome) ==
    LET called == async_call_tool(tool_name, transport, outcome)
    IN  IF called.exc # "none"
        THEN Raise(Exception("HomeAssistantError", 0,
                             << "MCP tool '", tool_name, "' failed: " >> \o py_str(called.error),
                             called.error))
        ELSE _extract_result(called.value)

\* the calls explored: a tool, a coordinator with or without its Transport,
\* and what the Transport's call_tool does when it is there
GatewayCalls ==
    { [tool_name |-> n, transport |-> TRUE, call_tool |-> o] :
        n \in ToolNames,
        o \in { Return(v) : v \in ToolResults } \cup { Raise(e) : e \in ToolFailures } }
    \cup { [tool_name |-> n, transport |-> FALSE, call_tool |-> Return(EmptyDict)] :
             n \in ToolNames }

InitGateway ==
    /\ Constructed(ExternalClient, 10, 60)
    /\ arg \in GatewayCalls
    /\ ret = NotCalled

\* await tool.async_call(hass, tool_input, llm_context)
gateway_call ==
    /\ ret = NotCalled
    /\ ret' = [done |-> TRUE] @@ async_call(arg.tool_name, arg.transport, arg.call_tool)
    /\ UNCHANGED << arg, transport_vars >>

NextGateway == gateway_call

SpecGateway == InitGateway /\ [][NextGateway]_vars

----------------------------------------------------------------------------
(* C16 *)

\* the call reached the extraction: the Transport was there and returned
Extracts == ret.done /\ arg.transport /\ arg.call_tool.exc = "none"

\* the content of the result handed to the extraction, empty when absent
ContentOf(result) == IF "content" \in DOMAIN result THEN result.content ELSE << >>

\* the positions of the content whose element is of type text
TextAt(content) ==
    { i \in 1..Len(content) : "type" \in DOMAIN content[i] /\ content[i].type = "text" }

\* every text element has a text
WellFormed(content) == \A i \in TextAt(content) : "text" \in DOMAIN content[i]

\* C16: the extraction of a result whose text elements all have a text
\* returns their texts, in the order of the content, with a newline between
\* two of them; without any text element (the content empty or absent
\* included) it returns the rendering of the whole result, and does not raise.
C16_TextPartsJoinedOrRendered ==
    (Extracts /\ WellFormed(ContentOf(arg.call_tool.value)))
        => LET content == ContentOf(arg.call_tool.value)
               at == Ascending(content, TextAt(content))
               out == ret.value.result
           IN  /\ ret.exc = "none"
               /\ at = << >> => out = Rendered(arg.call_tool.value)
               /\ at # << >>
                    => /\ out.str_of = EmptyDict
                       /\ Len(out.pieces) = 2 * Len(at) - 1
                       /\ \A k \in 1..Len(at) : out.pieces[2 * k - 1] = content[at[k]].text
                       /\ \A k \in 1..(Len(at) - 1) : out.pieces[2 * k] = "\n"

\* two texts around an image came out joined, in order
C16_Witness ==
    /\ Extracts
    /\ arg.call_tool.value
         = [content |-> << [type |-> "text", text |-> "B"],
                           [type |-> "image", data |-> "AAAA"],
                           [type |-> "text", text |-> "A"] >>]
    /\ ret.exc = "none"
    /\ ret.value.result = Joined(<< "B", "\n", "A" >>)

----------------------------------------------------------------------------
(* C17 *)

\* the exceptions reachable from e through __cause__, e included
RECURSIVE CauseChain(_)
CauseChain(e) == IF e.type = "none" THEN {} ELSE {e} \cup CauseChain(e.cause)

\* the pieces q end the pieces p
EndsWith(p, q) == Len(q) <= Len(p) /\ SubSeq(p, Len(p) - Len(q) + 1, Len(p)) = q

\* the failure the gateway call starts from: the coordinator has no
\* Transport, or the Transport's call_tool raised
OriginalFailure ==
    IF ~arg.transport
    THEN Exception("HomeAssistantError", 0, << "Transport not initialized" >>, NoCause)
    ELSE arg.call_tool.error

----------------------------------------------------------------------------
(* MCPGatewayCoordinator._filter_tools examined alone: one call on one *)
(* listing, under one set of options of the entry                       *)

\* tools of a listing explored
MaxTools == 3

\* the tools a gateway may list
ListedTools ==
    { [name |-> "t1"], [name |-> "t2"], [name |-> "t3", description |-> "third"] }

Listings == UNION { [1..n -> ListedTools] : n \in 0..MaxTools }

\* the allow-lists an entry may hold: in any order, a name no gateway lists
\* included
AllowLists == UNION { [1..n -> {"t1", "t3", "t9"}] : n \in 0..2 }

\* the options of the entry, with and without the allowed_tools key
EntryOptions == { EmptyDict } \cup { [allowed_tools |-> a] : a \in AllowLists }

\* x in lst
py_in(x, lst) == \E i \in 1..Len(lst) : lst[i] = x

\* a filter that applies the allow-list even when it is empty
filter_tools_always(options, tools) ==
    SelectSeq(tools, LAMBDA t : py_in(t.name, dict_get(options, "allowed_tools", << >>)))

\* MCPGatewayCoordinator._filter_tools, given self._entry.options
_filter_tools(options, tools) ==
    LET allowed == dict_get(options, "allowed_tools", << >>)
    IN  IF allowed = << >> THEN tools
        ELSE SelectSeq(tools, LAMBDA t : py_in(t.name, allowed))

InitFilter ==
    /\ Constructed(ExternalClient, 10, 60)
    /\ arg \in { [options |-> o, tools |-> l] : o \in EntryOptions, l \in Listings }
    /\ ret = NotCalled

\* self._filter_tools(tools)
filter_tools ==
    /\ ret = NotCalled
    /\ ret' = [done |-> TRUE, value |-> _filter_tools(arg.options, arg.tools)]
    /\ UNCHANGED << arg, transport_vars >>

NextFilter == filter_tools

SpecFilter == InitFilter /\ [][NextFilter]_vars

----------------------------------------------------------------------------
(* C18 *)

\* the names of the allow-list of the options, none when the key is absent
AllowedNames(options) ==
    IF "allowed_tools" \in DOMAIN options THEN Range(options.allowed_tools) ELSE {}

\* C18: with an empty (or absent) allow-list the filter returns the listing as
\* it is; with a non-empty one it returns the tools of the listing whose name
\* is in the allow-list, all of them and no other, in the order of the
\* listing.
C18_AllowListFilter ==
    ret.done
        => LET allowed == AllowedNames(arg.options)
               at == Ascending(arg.tools, { i \in 1..Len(arg.tools) :
                                              arg.tools[i].name \in allowed })
           IN  /\ allowed = {} => ret.value = arg.tools
               /\ allowed # {}
                    => /\ Len(ret.value) = Len(at)
                       /\ \A k \in 1..Len(at) : ret.value[k] = arg.tools[at[k]]

\* the allow-list names t3 before t1; the listing has t1 before t3 and a t2
\* between them: t1 and t3 come out in the order of the listing
C18_Witness ==
    /\ ret.done
    /\ arg.options = [allowed_tools |-> << "t3", "t1" >>]
    /\ arg.tools = << [name |-> "t1"], [name |-> "t2"],
                      [name |-> "t3", description |-> "third"] >>
    /\ ret.value = << [name |-> "t1"], [name |-> "t3", description |-> "third"] >>

----------------------------------------------------------------------------
(* security.filter_tool_results examined alone: one call on one dict.  The *)
(* dicts live in a heap (a sequence of objects, a reference being an index) *)
(* so that the copy and the caller's dict are two objects.                   *)

\* CONF_AUTH_TOKEN
AuthTokenKey == "auth_token"

\* the keys of the diagnostic data explored, and the values each may have
DiagnosticValues ==
    [auth_token |-> {"secret123", ""},
     gateway_url |-> {"http://localhost:8080/mcp", "secret123"},
     detail |-> {"ok", "**REDACTED**"},
     name |-> {"t1", "t2"}]

DiagnosticData ==
    UNION { { d \in [K -> UNION { DiagnosticValues[k] : k \in K }] :
                \A k \in K : d[k] \in DiagnosticValues[k] } :
            K \in SUBSET DOMAIN DiagnosticValues }

\* dict(obj): a new object with the items of obj; its reference is the last
dict_copy(heap, obj) == Append(heap, heap[obj])

\* obj[key] = value
set_item(heap, obj, key, value) ==
    [heap EXCEPT ![obj] = [k \in DOMAIN heap[obj] \cup {key} |->
                             IF k = key THEN value ELSE heap[obj][k]]]

\* a filter that redacts the dict it is given
filter_tool_results_in_place(heap, data) ==
    [heap |-> IF AuthTokenKey \in DOMAIN heap[data]
              THEN set_item(heap, data, AuthTokenKey, "**REDACTED**")
              ELSE heap,
     returned |-> data]

\* filter_tool_results(data): the heap it leaves and the object it returns
filter_tool_results(heap, data) ==
    LET copied == dict_copy(heap, data)
        filtered == Len(copied)
    IN  [heap |-> IF AuthTokenKey \in DOMAIN copied[filtered]
                  THEN set_item(copied, filtered, AuthTokenKey, "**REDACTED**")
                  ELSE copied,
         returned |-> filtered]

InitRedact ==
    /\ Constructed(ExternalClient, 10, 60)
    /\ arg \in { [data |-> d] : d \in DiagnosticData }
    /\ ret = NotCalled

\* filtered = filter_tool_results(data), data being the caller's only dict:
\* arg is that dict as the call leaves it
redact ==
    /\ ret = NotCalled
    /\ LET out == filter_tool_results(<< arg.data >>, 1)
       IN  /\ arg' = [data |-> out.heap[1]]
           /\ ret' = [done |-> TRUE, value |-> out.heap[out.returned],
                      same_object |-> out.returned = 1]
    /\ UNCHANGED transport_vars

NextRedact == redact

SpecRedact == InitRedact /\ [][NextRedact]_vars

----------------------------------------------------------------------------
(* C19 *)

\* C19: the call leaves the dict it was given as it was and returns another
\* dict with the same keys, the value of auth_token being "**REDACTED**" when
\* the key is there and every other value the one of the input; an input
\* without the key comes back as an equal copy.
C19_RedactedCopy ==
    [][ (~ret.done /\ ret'.done)
        => /\ arg' = arg
           /\ ~ret'.same_object
           /\ DOMAIN ret'.value = DOMAIN arg.data
           /\ \A k \in DOMAIN arg.data :
                ret'.value[k] = IF k = "auth_token" THEN "**REDACTED**" ELSE arg.data[k]
           /\ "auth_token" \notin DOMAIN arg.data => ret'.value = arg.data ]_vars

\* a dict with a token and a url came back with the token redacted and the
\* url kept, the dict itself still holding the token
C19_Witness ==
    /\ ret.done
    /\ DOMAIN arg.data = {"auth_token", "gateway_url"}
    /\ arg.data["auth_token"] = "secret123"
    /\ ret.value["auth_token"] = "**REDACTED**"
    /\ ret.value["gateway_url"] = "http://localhost:8080/mcp"

----------------------------------------------------------------------------
(* C20 *)

\* C20: when disconnect() returns on a Transport that owns its client and
\* holds one since a connect() that returned, the Transport still holds that
\* client, and the client is closed.
C20_ClosedSessionKeptAfterDisconnect ==
    [][ \A t \in Callers :
          (DisconnectReturns(t) /\ external_session = None /\ session # None
             /\ phase = "Ready")
          => /\ session' = session
             /\ clients'[session].closed ]_vars

----------------------------------------------------------------------------
(* MCPClientConfigFlow.async_step_user examined alone: one submission of   *)
(* the form.  The step builds a Transport of its own (no session argument, *)
(* no token check of its own) and awaits connect(), list_tools() and       *)
(* disconnect() one after the other, so what it shows is a function of the *)
(* gateway's answers to the three requests.                                *)

\* what the step shows: the form of a step, with errors["base"] or without
ShowForm(step_id, base) == [type |-> "form", step_id |-> step_id, base |-> base]

\* an error mapping that does not tell the 401 apart
flow_error_without_auth(exc, status) ==
    CASE exc = "ClientConnectionError" -> "cannot_connect"
      [] exc = "ClientResponseError" -> "cannot_connect"
      [] OTHER -> "unknown"

\* the except clauses of async_step_user: errors["base"] for an exception
flow_error(exc, status) ==
    CASE exc = "ClientConnectionError" -> "cannot_connect"
      [] exc = "ClientResponseError" /\ status = 401 -> "invalid_auth"
      [] exc = "ClientResponseError" -> "cannot_connect"
      [] OTHER -> "unknown"

\* [t["name"] for t in tools]
tool_names(tools) == [i \in 1..Len(tools) |-> tools[i].name]

\* async_step_user with user_input, given the gateway's answers to
\* initialize, to the notification and to tools/list
async_step_user(initialize, initialized, listing) ==
    LET r1 == raw_response(initialize, TRUE)
        r2 == raw_response(initialized, FALSE)
        r3 == _request(raw_response(listing, TRUE))
    IN  IF r1.exc # "none" THEN ShowForm("user", flow_error(r1.exc, r1.status))
        ELSE IF r2.exc # "none" THEN ShowForm("user", flow_error(r2.exc, r2.status))
        ELSE IF r3.exc # "none" THEN ShowForm("user", flow_error(r3.exc, r3.status))
        ELSE IF tool_names(list_tools_value(r3.env)) = << >>
             THEN ShowForm("user", "no_tools_found")
             ELSE ShowForm("tools", "none")

\* the submissions explored: the answers of the gateway to the three requests
Submissions ==
    { [initialize |-> a, initialized |-> b, listing |-> c] :
        a \in InitializeResponses, b \in NotificationResponses, c \in RequestResponses }

InitConfigFlow ==
    /\ Constructed(None, 30, 60)
    /\ arg \in Submissions
    /\ ret = NotCalled

\* await flow.async_step_user(user_input)
step_user ==
    /\ ret = NotCalled
    /\ ret' = [done |-> TRUE,
               shown |-> async_step_user(arg.initialize, arg.initialized, arg.listing)]
    /\ UNCHANGED << arg, transport_vars >>

NextConfigFlow == step_user

SpecConfigFlow == InitConfigFlow /\ [][NextConfigFlow]_vars

----------------------------------------------------------------------------
(* C21 *)

\* the envelope an answer carries, read as the protocol has it
EnvelopeOf(resp) ==
    IF IsEventStream(resp.ctype)
    THEN IF DataLines(resp.body, IsDataLineWithPayload) = {}
         THEN [exc |-> "MCPTransportError", env |-> EmptyDict]
         ELSE Denotes(EventPayloads(resp.body, IsDataLineWithPayload))
    ELSE Denotes([i \in 1..Len(resp.body) |-> resp.body[i].text])

\* a 2xx answer with a result envelope
ResultAnswer(resp) ==
    /\ resp.kind = "http"
    /\ resp.status \in 200..299
    /\ EnvelopeOf(resp).exc = "none"
    /\ "result" \in DOMAIN EnvelopeOf(resp).env

\* a 2xx answer to the notification
Accepted(resp) == resp.kind = "http" /\ resp.status \in 200..299

\* the answers up to the first one that is not a success: the requests the
\* step gets to send
Reached(s) ==
    << s.initialize >>
    \o (IF ResultAnswer(s.initialize) THEN << s.initialized >> ELSE << >>)
    \o (IF ResultAnswer(s.initialize) /\ Accepted(s.initialized)
        THEN << s.listing >> ELSE << >>)

\* the gateway is unreachable, or answers an HTTP error
HttpError(resp) == resp.kind = "http" /\ resp.status >= 400
GatewayFailed(resp) == resp.kind = "unreachable" \/ HttpError(resp)

\* C21: when the last request the step gets to send finds the gateway
\* unreachable or is answered an HTTP error other than 401 the step shows its
\* form with cannot_connect, and with invalid_auth for a 401; when the three
\* requests succeed and the listing is empty it shows no_tools_found; it shows
\* the tool selection when they succeed with a listing that is not empty, and
\* only for a listing that is not empty.  The three errors differ.
C21_ConfigStepOutcomes ==
    ret.done
        => LET final == Last(Reached(arg))
               connected == ResultAnswer(arg.initialize) /\ Accepted(arg.initialized)
           IN  /\ (GatewayFailed(final) /\ ~(HttpError(final) /\ final.status = 401))
                    => ret.shown = ShowForm("user", "cannot_connect")
               /\ (HttpError(final) /\ final.status = 401)
                    => ret.shown = ShowForm("user", "invalid_auth")
               /\ (connected /\ ResultAnswer(arg.listing))
                    => ret.shown = IF ToolsOf(EnvelopeOf(arg.listing).env) = << >>
                                   THEN ShowForm("user", "no_tools_found")
                                   ELSE ShowForm("tools", "none")
               /\ ret.shown.step_id = "tools"
                    => /\ EnvelopeOf(arg.listing).exc = "none"
                       /\ "result" \in DOMAIN EnvelopeOf(arg.listing).env
                       /\ ToolsOf(EnvelopeOf(arg.listing).env) # << >>
                       /\ \A i \in 1..Len(Reached(arg)) : ~GatewayFailed(Reached(arg)[i])
               /\ Cardinality({"cannot_connect", "invalid_auth", "no_tools_found"}) = 3

\* the gateway accepted the handshake and answered tools/list with 401
C21_Witness ==
    /\ ret.done
    /\ ResultAnswer(arg.initialize)
    /\ Accepted(arg.initialized)
    /\ arg.listing.kind = "http"
    /\ arg.listing.status = 401
    /\ ret.shown = ShowForm("user", "invalid_auth")

----------------------------------------------------------------------------
(* C22 *)

\* every id drawn so far went out on the wire
AllDrawnSent == Len(drawn) = Len(WireIds)

----------------------------------------------------------------------------
(* C23 *)

\* C23: connect() posts the initialized notification only on a successful
\* answer to initialize (2xx, a result envelope), and without an id; a 2xx
\* answer to the notification, its body empty and unread, makes connect()
\* return, and any other answer makes it raise.
C23_NotificationAfterInitialize ==
    [][ \A t \in Callers :
          /\ \A resp \in InitializeResponses :
               (on_initialize_response(t, resp) /\ wire' # wire)
               => /\ ResultAnswer(resp)
                  /\ Last(wire').method = "notifications/initialized"
                  /\ Last(wire').id = NoId
          /\ \A resp \in NotificationResponses :
               on_initialized_response(t, resp)
               => IF Accepted(resp)
                  THEN last' = Returned("connect", << >>)
                  ELSE last'.op = "connect" /\ last'.exc # "none" ]_vars

----------------------------------------------------------------------------
(* The coordinator: MCPGatewayCoordinator as a state machine of its own.   *)
(* arg is self, the coordinator (whether self._transport is set,           *)
(* self._tools, the options of self._entry); ret is what the last          *)
(* _async_update_data returned or raised.  The host runs one refresh at a  *)
(* time; what the Transport's list_tools() does in a refresh is drawn from *)
(* the listings a gateway may send and the exceptions the transport        *)
(* raises.                                                                 *)

\* the coordinator __init__ leaves, for the options of its entry
NewCoordinator(options) == [transport |-> FALSE, tools |-> << >>, options |-> options]

\* an assignment that adds the new tools to the ones held
extend_tools(held, tools) == held \o tools

\* self._tools = tools
assign_tools(held, tools) == tools

\* a refresh that forgets its tools when it fails
update_data_clearing(self, outcome) ==
    IF self.transport /\ outcome.exc = "none"
    THEN [self |-> [self EXCEPT !.tools = _filter_tools(self.options, outcome.value)],
          result |-> Return(EmptyDict)]
    ELSE [self |-> [self EXCEPT !.tools = << >>],
          result |-> Raise(Exception("UpdateFailed", 0, << "failed" >>, NoCause))]

\* MCPGatewayCoordinator._async_update_data, given what list_tools() does:
\* the coordinator it leaves, and what it returns or raises
_async_update_data(self, outcome) ==
    IF ~self.transport
    THEN [self |-> self,
          result |-> Raise(Exception("UpdateFailed", 0, << "Transport not initialized" >>,
                                     NoCause))]
    ELSE IF outcome.exc = "none"
    THEN [self |-> [self EXCEPT !.tools =
                      assign_tools(self.tools, _filter_tools(self.options, outcome.value))],
          result |-> Return(EmptyDict)]
    ELSE [self |-> self,
          result |-> Raise(Exception("UpdateFailed", 0,
                                     << "Failed to update gateway data: " >>
                                        \o py_str(outcome.error),
                                     outcome.error))]

\* MCPToolsAPI.async_get_api_instance: the names of the tools it exposes
async_get_api_instance(self) == [i \in 1..Len(self.tools) |-> self.tools[i].name]

\* tools of a listing explored in the refreshes
MaxListed == 2

\* the listings a refresh may get
RefreshListings == UNION { [1..n -> ListedTools] : n \in 0..MaxListed }

\* what list_tools() may do in a refresh
ListOutcomes ==
    { Return(l) : l \in RefreshListings } \cup { Raise(e) : e \in ToolFailures }

\* the options explored: no allow-list, an empty one, one that names two
\* tools, one that names a tool no gateway lists
CoordinatorOptions ==
    { EmptyDict, [allowed_tools |-> << >>], [allowed_tools |-> << "t3", "t1" >>],
      [allowed_tools |-> << "t9" >>] }

InitCoordinator ==
    /\ Constructed(ExternalClient, 10, 60)
    /\ arg \in { NewCoordinator(o) : o \in CoordinatorOptions }
    /\ ret = NotCalled

\* async_setup: self._transport is set
async_setup ==
    /\ ~arg.transport
    /\ arg' = [arg EXCEPT !.transport = TRUE]
    /\ UNCHANGED << ret, transport_vars >>

\* one refresh of the host, list_tools() doing outcome
on_refresh(outcome) ==
    /\ LET out == _async_update_data(arg, outcome)
       IN  /\ arg' = out.self
           /\ ret' = [done |-> TRUE] @@ out.result
    /\ UNCHANGED transport_vars

refresh == \E outcome \in ListOutcomes : on_refresh(outcome)

\* the options flow stores other options; nothing is reloaded
update_options ==
    /\ \E o \in CoordinatorOptions : arg' = [arg EXCEPT !.options = o]
    /\ UNCHANGED << ret, transport_vars >>

NextCoordinator == async_setup \/ refresh \/ update_options

SpecCoordinator == InitCoordinator /\ [][NextCoordinator]_vars

----------------------------------------------------------------------------
(* C24 *)

\* the tools of a listing that the options let through, by position
PassingAt(options, listing) ==
    { i \in 1..Len(listing) :
        AllowedNames(options) = {} \/ listing[i].name \in AllowedNames(options) }

\* C24: a refresh whose listing succeeds leaves as the coordinator's tools the
\* tools of that listing that the allow-list lets through, in its order, and
\* nothing else: no tool held before that the listing lacks is held after, and
\* the API instance exposes the names of exactly these tools.
C24_RefreshReplacesTools ==
    [][ \A outcome \in { Return(l) : l \in RefreshListings } :
          (arg.transport /\ on_refresh(outcome))
          => LET at == Ascending(outcome.value, PassingAt(arg.options, outcome.value))
             IN  /\ Len(arg'.tools) = Len(at)
                 /\ \A k \in 1..Len(at) : arg'.tools[k] = outcome.value[at[k]]
                 /\ \A k \in 1..Len(arg'.tools) : arg'.tools[k] \in Range(outcome.value)
                 /\ async_get_api_instance(arg')
                      = [k \in 1..Len(at) |-> outcome.value[at[k]].name] ]_vars

\* under an allow-list of t3 and t1, a refresh that listed t2 and t3 left t3
\* as the only tool
C24_Witness ==
    /\ ret.done
    /\ ret.exc = "none"
    /\ arg.transport
    /\ arg.options = [allowed_tools |-> << "t3", "t1" >>]
    /\ arg.tools = << [name |-> "t3", description |-> "third"] >>

----------------------------------------------------------------------------
(* C27 *)

\* the refresh cannot succeed: no Transport, or list_tools() raises
RefreshFails(outcome) == ~arg.transport \/ outcome.exc # "none"

\* C27: a refresh that fails raises UpdateFailed and leaves the coordinator's
\* tools as they were; the tools change in no step but a refresh whose
\* listing succeeded.
C27_FailedRefreshKeepsTools ==
    [][ /\ \A outcome \in ListOutcomes :
             (RefreshFails(outcome) /\ on_refresh(outcome))
             => /\ ret'.exc = "UpdateFailed"
                /\ arg'.tools = arg.tools
        /\ arg'.tools # arg.tools
             => \E outcome \in ListOutcomes :
                  on_refresh(outcome) /\ ~RefreshFails(outcome) ]_vars

\* a refresh failed on a timeout and the coordinator still holds two tools
C27_Witness ==
    /\ ret.done
    /\ ret.exc = "UpdateFailed"
    /\ ret.error.cause.type = "TimeoutError"
    /\ Len(arg.tools) = 2

----------------------------------------------------------------------------
(* C25 *)

\* C25: in every state, a Transport whose _session is None has a _session_id
\* of None: a session identifier is held only while an HTTP client is held.
C25_SessionIdImpliesClient == session = None => session_id = NoSid

----------------------------------------------------------------------------
(* C26 *)

\* the clients of the Transport's own making that are not closed
OpenClients(cl) == { i \in 1..Len(cl) : ~cl[i].closed }

\* no call of the Transport is suspended
NoCallInProgress == \A t \in Callers : tasks[t].pc = "idle"

\* C26: on a Transport that makes its own client, a connect() called on the
\* connected Transport, no call being in progress, leaves at most one client
\* of its making open, and when a disconnect() returns with no call in
\* progress every client the Transport made is closed.
C26_OwnedClientsClosed ==
    [][ external_session = None
        => /\ \A t \in Callers :
                (NoCallInProgress /\ phase = "Ready" /\ connect(t))
                => Cardinality(OpenClients(clients')) <= 1
           /\ \A t \in Callers :
                (NoCallInProgress' /\ last'.op = "disconnect"
                   /\ (disconnect(t) \/ disconnect_closed(t)))
                => OpenClients(clients') = {} ]_vars

============================================================================
